---- MODULE Spec2Model ----
(***************************************************************************)
(* DDPG (spinup/algos/pytorch/ddpg/ddpg.py): the experience replay buffer, *)
(* the training / evaluation control loop and the update step.             *)
(*                                                                         *)
(* Three specifications share the definitions below:                       *)
(*   SpecBuffer  a ReplayBuffer object driven by arbitrary store and       *)
(*               sample_batch calls;                                       *)
(*   Spec        ddpg(mode='train'): the main loop, line by line;          *)
(*   SpecUpdate  the update function on numeric parameters.                *)
(***************************************************************************)
EXTENDS Integers, Sequences, FiniteSets, TLC

(* ------------------------------ bounds --------------------------------- *)
\* capacity of a ReplayBuffer under SpecBuffer ranges over 1..MaxCap
MaxCap == 3
\* number of store calls explored under SpecBuffer
MaxStores == 4
\* batch_size under SpecBuffer ranges over 1..MaxBatch
MaxBatch == 2
\* distinct transitions offered to store under SpecBuffer
MaxTrans == 2

(* ------------------------------ state ---------------------------------- *)
VARIABLES
  \* ReplayBuffer fields (lines 19-24)
  obs_buf, obs2_buf, act_buf, rew_buf, done_buf, ptr, size, max_size,
  \* sample_batch: the indices drawn, the batch returned, the exception raised
  idxs, batch, raised,
  \* history of the buffer: number of store calls, the last max_size stored
  \* transitions (oldest first), the last method called
  nstored, recent, op,
  \* ddpg's arguments (line 46)
  steps_per_epoch, epochs, start_steps, update_after, update_every,
  num_test_episodes, max_ep_len, batch_size, save_freq,
  \* the two environments made by env_fn (line 134)
  env, test_env,
  \* position in ddpg(mode='train') and the locals of its main loop
  pc, t, o, a, o2, r, d, ep_ret, ep_len, upd_i, epoch, avg_episode_ret,
  prev_best,
  \* the locals of test_agent
  ta_j, ta_o, ta_d, ta_ep_ret, ta_ep_len,
  \* Adam's step counters of q_optimizer and pi_optimizer, which number the
  \* versions of the live parameters, and the number of Polyak applications,
  \* which numbers the versions of the target parameters
  q_step, pi_step, targ_sync,
  \* the sinks: what logger.store received, the checkpoints save_model wrote
  logger, checkpoints,
  \* history of the run: the done signal the environment gave at this step
  \* (kept until the end-of-trajectory handling),
  \* the update calls of this step's burst, the steps of the latest burst and
  \* of the one before it (-1: none), the environment steps taken, the test_agent
  \* calls made, the average returns of the epochs so far
  d_env, burst, burst_t, prev_burst_t, n_env_steps, n_test_runs, ret_hist,
  \* the update function on numbers: the argument polyak; the live parameters
  \* ac and the target parameters ac_targ, one number for the actor pi and one
  \* for the critic q; each live parameter's .grad and requires_grad; whether
  \* any target parameter requires grad; whether zero_grad sets .grad to None
  \* (the default of the torch build); the position inside update
  polyak, ac, ac_targ, grad, requires_grad, targ_requires_grad, set_to_none,
  u_pc,
  \* history of update: the target parameters at the entry of the current
  \* call and at construction, the calls completed
  targ_entry, targ_init, n_updates,
  \* get_action: act_limit (line 174), and of the latest call the policy's
  \* output ac.act(o), the argument noise_scale, the draw of np.random.randn
  \* and the action returned
  act_limit, ga_act, ga_noise_scale, ga_randn, ga_a

bufVars == <<obs_buf, obs2_buf, act_buf, rew_buf, done_buf, ptr, size, max_size>>
sampleVars == <<idxs, batch, raised>>
histVars == <<nstored, recent>>

cfgVars == <<steps_per_epoch, epochs, start_steps, update_after, update_every,
             num_test_episodes, max_ep_len, batch_size, save_freq>>
loopVars == <<pc, t, o, a, o2, r, d, ep_ret, ep_len, upd_i, epoch,
              avg_episode_ret, prev_best>>
testVars == <<ta_j, ta_o, ta_d, ta_ep_ret, ta_ep_len>>
paramVars == <<q_step, pi_step, targ_sync>>
sinkVars == <<logger, checkpoints>>
runHist == <<d_env, burst, burst_t, prev_burst_t, n_env_steps, n_test_runs, ret_hist>>
trainVars == <<cfgVars, env, test_env, loopVars, testVars, paramVars, sinkVars,
               runHist>>

numVars == <<polyak, ac, ac_targ, grad, requires_grad, targ_requires_grad,
             set_to_none, u_pc, targ_entry, targ_init, n_updates>>

actVars == <<act_limit, ga_act, ga_noise_scale, ga_randn, ga_a>>

vars == <<bufVars, sampleVars, histVars, op, trainVars, numVars, actVars>>

(* ------------------------------ helpers -------------------------------- *)
min(x, y) == IF x <= y THEN x ELSE y

\* np.zeros(size): every slot of a fresh array holds 0.0
zeros(n) == [i \in 0..(n - 1) |-> 0]

\* a Python bool written into a float32 array (done_buf[ptr] = done)
as_float(done) == IF done = TRUE THEN 1 ELSE 0

\* np.random.randint(low, high, size=n): the arrays it can return; it raises
\* ValueError (here: no array at all) when low >= high
randint(low, high, n) ==
  IF low >= high THEN {} ELSE [1..n -> low..(high - 1)]

\* arr[idxs]: numpy fancy indexing, one row per drawn index
take(arr, ix) == [j \in DOMAIN ix |-> arr[ix[j]]]

(* ---------------------------- ReplayBuffer ----------------------------- *)
\* ReplayBuffer.__init__(obs_dim, act_dim, size)
ReplayBuffer_init(sz) ==
  /\ obs_buf = zeros(sz)
  /\ obs2_buf = zeros(sz)
  /\ act_buf = zeros(sz)
  /\ rew_buf = zeros(sz)
  /\ done_buf = zeros(sz)
  /\ ptr = 0
  /\ size = 0
  /\ max_size = sz
  /\ nstored = 0
  /\ recent = <<>>

\* the history kept beside the buffer: one more store, the window of the
\* last max_size transitions
remember(tr) ==
  /\ nstored' = nstored + 1
  /\ recent' = IF Len(recent) < max_size THEN Append(recent, tr)
               ELSE Append(Tail(recent), tr)

store_ptr_saturates(obs, act, rew, next_obs, done) ==
  /\ obs_buf' = [obs_buf EXCEPT ![ptr] = obs]
  /\ obs2_buf' = [obs2_buf EXCEPT ![ptr] = next_obs]
  /\ act_buf' = [act_buf EXCEPT ![ptr] = act]
  /\ rew_buf' = [rew_buf EXCEPT ![ptr] = rew]
  /\ done_buf' = [done_buf EXCEPT ![ptr] = as_float(done)]
  /\ ptr' = min(ptr + 1, max_size - 1)
  /\ size' = min(size + 1, max_size)
  /\ UNCHANGED max_size
  /\ remember([obs |-> obs, act |-> act, rew |-> rew, obs2 |-> next_obs,
               done |-> as_float(done)])

\* ReplayBuffer.store(obs, act, rew, next_obs, done)
store(obs, act, rew, next_obs, done) ==
  /\ obs_buf' = [obs_buf EXCEPT ![ptr] = obs]
  /\ obs2_buf' = [obs2_buf EXCEPT ![ptr] = next_obs]
  /\ act_buf' = [act_buf EXCEPT ![ptr] = act]
  /\ rew_buf' = [rew_buf EXCEPT ![ptr] = rew]
  /\ done_buf' = [done_buf EXCEPT ![ptr] = as_float(done)]
  /\ ptr' = (ptr + 1) % max_size
  /\ size' = min(size + 1, max_size)
  /\ UNCHANGED max_size
  /\ remember([obs |-> obs, act |-> act, rew |-> rew, obs2 |-> next_obs,
               done |-> as_float(done)])

draw_any_slot(bs) == [1..bs -> 0..(max_size - 1)]

\* line 36: the index arrays np.random.randint(0, self.size, size=batch_size)
\* can return; none when it raises
draw(bs) == randint(0, size, bs)

sample_batch_clamped(bs) ==
  /\ \E ix \in [1..bs -> 0..(IF size = 0 THEN 0 ELSE size - 1)] :
       /\ idxs' = ix
       /\ batch' = [obs |-> take(obs_buf, ix), obs2 |-> take(obs2_buf, ix),
                    act |-> take(act_buf, ix), rew |-> take(rew_buf, ix),
                    done |-> take(done_buf, ix)]
  /\ raised' = "none"
  /\ UNCHANGED <<bufVars, histVars>>

\* ReplayBuffer.sample_batch(batch_size)
sample_batch(bs) ==
  /\ IF draw(bs) = {}
       THEN /\ raised' = "ValueError"
            /\ UNCHANGED <<idxs, batch>>
       ELSE /\ \E ix \in draw(bs) :
                 /\ idxs' = ix
                 /\ batch' = [obs |-> take(obs_buf, ix),
                              obs2 |-> take(obs2_buf, ix),
                              act |-> take(act_buf, ix),
                              rew |-> take(rew_buf, ix),
                              done |-> take(done_buf, ix)]
            /\ raised' = "none"
  /\ UNCHANGED <<bufVars, histVars>>

(* --------------- SpecBuffer: a buffer and its two methods -------------- *)
\* the transitions a caller hands to store: all five fields differ from one
\* transition to the next, and none is the 0 of a never-written slot
Transitions ==
  { [obs |-> i, act |-> 10 + i, rew |-> 20 + i, next_obs |-> 30 + i,
     done |-> (i % 2 = 0)] : i \in 1..MaxTrans }

NoBatch == [obs |-> <<>>, obs2 |-> <<>>, act |-> <<>>, rew |-> <<>>, done |-> <<>>]

\* float('-inf') and the finite floats, ordered as Python orders them
NegInf == <<0, 0>>
Fin(x) == <<1, x>>

\* the logger (external), by what it was given: the number of training
\* episodes stored and the last one's return and length, the number of test
\* rollouts stored, the number of loss records stored, the number of
\* save_state calls, the number of epoch rows dumped
NoLog == [episodes |-> 0, episode_return |-> 0, episode_length |-> 0,
          evals |-> 0, losses |-> 0, saves |-> 0, dumps |-> 0]

\* a number as a fraction <<numerator, denominator>>
Frac(n, m) == <<n, m>>
Whole(n) == <<n, 1>>

\* lines 176-208: the live parameters, the target parameters as their deepcopy
\* (line 182), frozen (lines 207-208), no gradient computed yet
NumStart(rho, w_pi, w_q, stn) ==
  /\ polyak = rho
  /\ ac = [pi |-> w_pi, q |-> w_q]
  /\ ac_targ = [pi |-> Whole(w_pi), q |-> Whole(w_q)]
  /\ grad = [pi |-> <<>>, q |-> <<>>]
  /\ requires_grad = [pi |-> TRUE, q |-> TRUE]
  /\ targ_requires_grad = FALSE
  /\ set_to_none = stn
  /\ u_pc = "idle"
  /\ targ_entry = [pi |-> Whole(w_pi), q |-> Whole(w_q)]
  /\ targ_init = [pi |-> Whole(w_pi), q |-> Whole(w_q)]
  /\ n_updates = 0

\* line 174: act_limit, read from the environment's action space; no
\* get_action call made yet
ActStart(lim) ==
  /\ act_limit = lim
  /\ ga_act = 0
  /\ ga_noise_scale = 0
  /\ ga_randn = 0
  /\ ga_a = 0

\* the state of ddpg's locals before the main loop starts (lines 306-312), for
\* the given arguments
TrainStart(spe, eps, ss, ua, ue, nte, mel, bs, sf) ==
  /\ steps_per_epoch = spe /\ epochs = eps /\ start_steps = ss
  /\ update_after = ua /\ update_every = ue /\ num_test_episodes = nte
  /\ max_ep_len = mel /\ batch_size = bs /\ save_freq = sf
  /\ env = 0 /\ test_env = 0
  /\ t = 0 /\ o = 0 /\ a = 0 /\ o2 = 0 /\ r = 0 /\ d = FALSE
  /\ ep_ret = 0 /\ ep_len = 0 /\ upd_i = 0 /\ epoch = 0
  /\ avg_episode_ret = NegInf /\ prev_best = NegInf
  /\ ta_j = 0 /\ ta_o = 0 /\ ta_d = FALSE /\ ta_ep_ret = 0 /\ ta_ep_len = 0
  /\ q_step = 0 /\ pi_step = 0 /\ targ_sync = 0
  /\ logger = NoLog /\ checkpoints = {}
  /\ d_env = FALSE /\ burst = 0 /\ burst_t = -1 /\ prev_burst_t = -1
  /\ n_env_steps = 0 /\ n_test_runs = 0 /\ ret_hist = <<>>

InitBuffer ==
  /\ \E sz \in 1..MaxCap : ReplayBuffer_init(sz)
  /\ idxs = <<>>
  /\ batch = NoBatch
  /\ raised = "none"
  /\ op = "init"
  /\ pc = "no_run"
  /\ TrainStart(1, 1, 0, 0, 1, 1, 1, 1, 1)
  /\ NumStart(Whole(1), 0, 0, TRUE)
  /\ ActStart(1)

StoreCall ==
  /\ nstored < MaxStores
  /\ \E tr \in Transitions : store(tr.obs, tr.act, tr.rew, tr.next_obs, tr.done)
  /\ op' = "store"
  /\ UNCHANGED <<sampleVars, trainVars, numVars, actVars>>

SampleCall ==
  /\ \E bs \in 1..MaxBatch : sample_batch(bs)
  /\ op' = "sample_batch"
  /\ UNCHANGED <<trainVars, numVars, actVars>>

NextBuffer == StoreCall \/ SampleCall

SpecBuffer == InitBuffer /\ [][NextBuffer]_vars

(* ------------------------- claims on the buffer ------------------------ *)
\* the transition held by slot i, read across the five arrays
Row(i) == [obs |-> obs_buf[i], act |-> act_buf[i], rew |-> rew_buf[i],
           obs2 |-> obs2_buf[i], done |-> done_buf[i]]

\* row j of the batch last returned
BatchRow(j) == [obs |-> batch.obs[j], act |-> batch.act[j], rew |-> batch.rew[j],
                obs2 |-> batch.obs2[j], done |-> batch.done[j]]

ZeroRow == [obs |-> 0, act |-> 0, rew |-> 0, obs2 |-> 0, done |-> 0]

\* C1: ring invariant. After n stores on a buffer of capacity C, size is
\* min(n, C), ptr is n mod C, the k-th store sits in slot (k-1) mod C for each
\* of the last min(n, C) stores, and every other slot was never written.
C1_RingInvariant ==
  /\ size = min(nstored, max_size)
  /\ ptr = nstored % max_size
  /\ Len(recent) = size
  /\ \A k \in (nstored - size + 1)..nstored :
       /\ (k - 1) % max_size \in 0..(size - 1)
       /\ Row((k - 1) % max_size) = recent[k - (nstored - size)]
  /\ \A i \in size..(max_size - 1) : Row(i) = ZeroRow

\* a buffer of capacity >= 2 that has wrapped and overwritten its oldest entry
C1_Witness ==
  /\ op = "store"
  /\ max_size >= 2
  /\ nstored > max_size
  /\ recent[1] # recent[2]

\* C2: sampling domain. After a sample_batch call on a buffer of size k >= 1,
\* every row of the batch is the transition of one slot i < k, a slot that
\* was written, with the same i for all five arrays.
C2_SamplingDomain ==
  (op = "sample_batch" /\ size >= 1) =>
    /\ raised = "none"
    /\ \A j \in DOMAIN idxs :
         /\ idxs[j] \in 0..(size - 1)
         /\ BatchRow(j) = Row(idxs[j])
         /\ \E k \in 1..Len(recent) : BatchRow(j) = recent[k]
    /\ DOMAIN batch.obs = DOMAIN idxs

\* a batch of two rows drawn from the same slot, while slots remain unwritten
C2_Witness ==
  /\ op = "sample_batch"
  /\ raised = "none"
  /\ size >= 2
  /\ size < max_size
  /\ Len(idxs) = 2
  /\ idxs[1] = idxs[2]

\* C3: sample_batch on an empty buffer raises and returns no batch, and no
\* sample_batch call, failing or not, changes ptr, size or a stored value.
C3_EmptySampleFails ==
  [][op' = "sample_batch" =>
       /\ UNCHANGED bufVars
       /\ size = 0 => (raised' = "ValueError" /\ batch' = batch /\ idxs' = idxs)
       /\ size > 0 => raised' = "none"]_vars

\* a sample_batch call that failed on the empty buffer
C3_Witness ==
  /\ op = "sample_batch"
  /\ raised = "ValueError"
  /\ size = 0
  /\ nstored = 0

(* ------------------- ddpg(mode='train'): the main loop ------------------ *)
\* bound of the runs explored under Spec: epochs ranges over 1..MaxEpochs
MaxEpochs == 3

\* the values ddpg's other arguments are drawn from
StepsPerEpochs == {1, 2}
ReplaySizes == {1, 2}
StartSteps == {0, 2}
UpdateAfters == {0, 3}
UpdateEverys == {1, 2}
NumTestEpisodes == {2}
MaxEpLens == {1, 2}
BatchSizes == {1}
SaveFreqs == {2}
\* the average training returns the logger can report for an epoch
AvgReturns == {3, 5, 7}

\* x > y and max(x, y) on floats
float_gt(x, y) == x[1] > y[1] \/ (x[1] = y[1] /\ x[2] > y[2])
py_max(x, y) == IF float_gt(y, x) THEN y ELSE x

\* The environment (external): its state is the number of steps since the last
\* reset, the observation is the state, the reward of a step is the state
\* reached, and termination is the environment's free choice.
env_reset == 0
env_next(s) == s + 1
env_reward(s) == s + 1

\* the action, by the branch that produced it
RandomAction == 1
PolicyAction == 2
\* env.action_space['action'].sample()
action_space_sample == RandomAction
\* get_action(o, noise_scale)
get_action(ob, noise_scale) == PolicyAction

\* line 308
total_steps == steps_per_epoch * epochs

\* lines 320-323: the action of loop step n
select_action(n, ob) ==
  IF n > start_steps THEN get_action(ob, "act_noise") ELSE action_space_sample

corrected_done_inverted(len, signal) ==
  IF len # max_ep_len THEN FALSE ELSE signal

\* line 338: the done flag stored, from the episode length and the signal
corrected_done(len, signal) == IF len = max_ep_len THEN FALSE ELSE signal

update_due_from_zero(n) == n % update_every = 0

update_due_strict(n) == n > update_after /\ n % update_every = 0

\* line 353: whether loop step n runs an update burst
update_due(n) == n >= update_after /\ n % update_every = 0

epoch_ends_at_start(n) == n % steps_per_epoch = 0

\* line 359: whether loop step n ends an epoch
epoch_ends(n) == (n + 1) % steps_per_epoch = 0

improves_or_ties(avg, best) == ~float_gt(best, avg)

\* line 384: whether the epoch's average return earns a checkpoint
improves(avg, best) == float_gt(avg, best)

\* update(data), lines 245-276, by its effect on the parameter versions: one
\* q_optimizer step, one pi_optimizer step, one Polyak application, and the
\* losses stored in the logger
update(data) ==
  /\ q_step' = q_step + 1
  /\ pi_step' = pi_step + 1
  /\ targ_sync' = targ_sync + 1
  /\ logger' = [logger EXCEPT !.losses = @ + 1]

\* end of a loop iteration: the next t of range(total_steps), or the end
advance ==
  IF t + 1 < total_steps
    THEN t' = t + 1 /\ pc' = "loop"
    ELSE t' = t /\ pc' = "done"

StepEnv_store_late ==
  /\ pc = "loop"
  /\ \E signal \in BOOLEAN :
       /\ a' = select_action(t, o)
       /\ env' = env_next(env)
       /\ o2' = env_next(env)
       /\ r' = env_reward(env)
       /\ d_env' = signal
       /\ ep_ret' = ep_ret + env_reward(env)
       /\ ep_len' = ep_len + 1
       /\ d' = corrected_done(ep_len + 1, signal)
       /\ IF t = 0 THEN UNCHANGED <<bufVars, histVars>>
                   ELSE store(o, a, r, o2, d)
  /\ n_env_steps' = n_env_steps + 1
  /\ burst' = 0
  /\ pc' = "traj"
  /\ UNCHANGED <<numVars, actVars>>
  /\ UNCHANGED <<sampleVars, op, cfgVars, test_env, t, o, upd_i, epoch,
                 avg_episode_ret, prev_best, testVars, paramVars, sinkVars,
                 burst_t, prev_burst_t, n_test_runs, ret_hist>>

\* lines 320-341: choose the action, step the training environment,
\* accumulate, correct the done flag, store the transition
StepEnv ==
  /\ pc = "loop"
  /\ \E signal \in BOOLEAN :
       /\ a' = select_action(t, o)
       /\ env' = env_next(env)
       /\ o2' = env_next(env)
       /\ r' = env_reward(env)
       /\ d_env' = signal
       /\ ep_ret' = ep_ret + env_reward(env)
       /\ ep_len' = ep_len + 1
       /\ d' = corrected_done(ep_len + 1, signal)
       /\ store(o, a', r', o2', d')
  /\ n_env_steps' = n_env_steps + 1
  /\ burst' = 0
  /\ pc' = "traj"
  /\ UNCHANGED <<numVars, actVars>>
  /\ UNCHANGED <<sampleVars, op, cfgVars, test_env, t, o, upd_i, epoch,
                 avg_episode_ret, prev_best, testVars, paramVars, sinkVars,
                 burst_t, prev_burst_t, n_test_runs, ret_hist>>

EndOfTrajectory_on_done_only ==
  /\ pc = "traj"
  /\ IF d
       THEN /\ logger' = [logger EXCEPT !.episodes = @ + 1,
                                        !.episode_return = ep_ret,
                                        !.episode_length = ep_len]
            /\ env' = env_reset
            /\ o' = env_reset
            /\ ep_ret' = 0
            /\ ep_len' = 0
       ELSE /\ o' = o2
            /\ UNCHANGED <<logger, env, ep_ret, ep_len>>
  /\ d_env' = FALSE
  /\ pc' = "update"
  /\ UNCHANGED <<numVars, actVars>>
  /\ UNCHANGED <<bufVars, sampleVars, histVars, op, cfgVars, test_env, t, a, o2,
                 r, d, upd_i, epoch, avg_episode_ret, prev_best, testVars,
                 paramVars, checkpoints, burst, burst_t, prev_burst_t,
                 n_env_steps, n_test_runs, ret_hist>>

\* lines 345-350: o = o2 and the end-of-trajectory handling
EndOfTrajectory ==
  /\ pc = "traj"
  /\ IF d \/ ep_len = max_ep_len
       THEN /\ logger' = [logger EXCEPT !.episodes = @ + 1,
                                        !.episode_return = ep_ret,
                                        !.episode_length = ep_len]
            /\ env' = env_reset
            /\ o' = env_reset
            /\ ep_ret' = 0
            /\ ep_len' = 0
       ELSE /\ o' = o2
            /\ UNCHANGED <<logger, env, ep_ret, ep_len>>
  /\ d_env' = FALSE
  /\ pc' = "update"
  /\ UNCHANGED <<numVars, actVars>>
  /\ UNCHANGED <<bufVars, sampleVars, histVars, op, cfgVars, test_env, t, a, o2,
                 r, d, upd_i, epoch, avg_episode_ret, prev_best, testVars,
                 paramVars, checkpoints, burst, burst_t, prev_burst_t,
                 n_env_steps, n_test_runs, ret_hist>>

UpdateHandling_defers_burst ==
  /\ pc = "update"
  /\ IF update_due(t) /\ ~epoch_ends(t)
       THEN /\ pc' = "burst"
            /\ upd_i' = 0
            /\ burst_t' = t
            /\ prev_burst_t' = burst_t
       ELSE /\ pc' = "epoch"
            /\ UNCHANGED <<upd_i, burst_t, prev_burst_t>>
  /\ UNCHANGED <<numVars, actVars>>
  /\ UNCHANGED <<bufVars, sampleVars, histVars, op, cfgVars, env, test_env, t, o,
                 a, o2, r, d, ep_ret, ep_len, epoch, avg_episode_ret, prev_best,
                 testVars, paramVars, sinkVars, d_env, burst, n_env_steps,
                 n_test_runs, ret_hist>>

\* line 353: the update condition; line 354 starts the burst
UpdateHandling ==
  /\ pc = "update"
  /\ IF update_due(t)
       THEN /\ pc' = "burst"
            /\ upd_i' = 0
            /\ burst_t' = t
            /\ prev_burst_t' = burst_t
       ELSE /\ pc' = "epoch"
            /\ UNCHANGED <<upd_i, burst_t, prev_burst_t>>
  /\ UNCHANGED <<numVars, actVars>>
  /\ UNCHANGED <<bufVars, sampleVars, histVars, op, cfgVars, env, test_env, t, o,
                 a, o2, r, d, ep_ret, ep_len, epoch, avg_episode_ret, prev_best,
                 testVars, paramVars, sinkVars, d_env, burst, n_env_steps,
                 n_test_runs, ret_hist>>

\* lines 355-356: one iteration of the burst, sample_batch then update; an
\* exception of sample_batch ends the run
UpdateStep ==
  /\ pc = "burst"
  /\ sample_batch(batch_size)
  /\ IF raised' = "ValueError"
       THEN /\ pc' = "error"
            /\ UNCHANGED <<upd_i, burst, paramVars, logger>>
       ELSE /\ update(batch')
            /\ upd_i' = upd_i + 1
            /\ burst' = burst + 1
            /\ pc' = IF upd_i + 1 < update_every THEN "burst" ELSE "epoch"
  /\ UNCHANGED <<numVars, actVars>>
  /\ UNCHANGED <<op, cfgVars, env, test_env, t, o, a, o2, r, d, ep_ret, ep_len,
                 epoch, avg_episode_ret, prev_best, testVars, checkpoints,
                 d_env, burst_t, prev_burst_t, n_env_steps, n_test_runs,
                 ret_hist>>

\* lines 359-367: the epoch condition; at an epoch boundary the state is
\* saved every save_freq epochs and at the last one, and test_agent is called
EndOfEpoch ==
  /\ pc = "epoch"
  /\ IF epoch_ends(t)
       THEN /\ epoch' = (t + 1) \div steps_per_epoch
            /\ logger' = IF epoch' % save_freq = 0 \/ epoch' = epochs
                           THEN [logger EXCEPT !.saves = @ + 1]
                           ELSE logger
            /\ n_test_runs' = n_test_runs + 1
            /\ ta_j' = 0
            /\ pc' = "test_for"
            /\ UNCHANGED t
       ELSE /\ advance
            /\ UNCHANGED <<epoch, logger, n_test_runs, ta_j>>
  /\ UNCHANGED <<numVars, actVars>>
  /\ UNCHANGED <<bufVars, sampleVars, histVars, op, cfgVars, env, test_env, o, a,
                 o2, r, d, ep_ret, ep_len, upd_i, avg_episode_ret, prev_best,
                 ta_o, ta_d, ta_ep_ret, ta_ep_len, paramVars, checkpoints, d_env,
                 burst, burst_t, prev_burst_t, n_env_steps, ret_hist>>

ta_step_on_env(signal) ==
  /\ env' = env_next(env)
  /\ ta_o' = env_next(env)
  /\ ta_d' = signal
  /\ ta_ep_ret' = ta_ep_ret + env_reward(env)
  /\ ta_ep_len' = ta_ep_len + 1
  /\ UNCHANGED test_env

\* lines 289-291: one step of a test rollout, on test_env
ta_step(signal) ==
  /\ test_env' = env_next(test_env)
  /\ ta_o' = env_next(test_env)
  /\ ta_d' = signal
  /\ ta_ep_ret' = ta_ep_ret + env_reward(test_env)
  /\ ta_ep_len' = ta_ep_len + 1
  /\ UNCHANGED env

\* lines 285-286: the for loop of test_agent: start the next rollout, or
\* return, which ends the life of test_agent's locals
TestFor ==
  /\ pc = "test_for"
  /\ IF ta_j < num_test_episodes
       THEN /\ test_env' = env_reset
            /\ ta_o' = env_reset
            /\ ta_d' = FALSE
            /\ ta_ep_ret' = 0
            /\ ta_ep_len' = 0
            /\ pc' = "test_while"
            /\ UNCHANGED ta_j
       ELSE /\ pc' = "epoch_end"
            /\ ta_j' = 0
            /\ ta_o' = 0
            /\ ta_d' = FALSE
            /\ ta_ep_ret' = 0
            /\ ta_ep_len' = 0
            /\ UNCHANGED test_env
  /\ UNCHANGED <<numVars, actVars>>
  /\ UNCHANGED <<bufVars, sampleVars, histVars, op, cfgVars, env, t, o,
                 a, o2, r, d, ep_ret, ep_len, upd_i, epoch, avg_episode_ret,
                 prev_best, paramVars, sinkVars, runHist>>

\* lines 287-292: the while loop of a test rollout: one more step, or the
\* rollout's statistics are stored
TestWhile ==
  /\ pc = "test_while"
  /\ IF ~(ta_d \/ ta_ep_len = max_ep_len)
       THEN /\ \E signal \in BOOLEAN : ta_step(signal)
            /\ UNCHANGED <<pc, ta_j, logger>>
       ELSE /\ logger' = [logger EXCEPT !.evals = @ + 1]
            /\ ta_j' = ta_j + 1
            /\ pc' = "test_for"
            /\ UNCHANGED <<env, test_env, ta_o, ta_d, ta_ep_ret, ta_ep_len>>
  /\ UNCHANGED <<numVars, actVars>>
  /\ UNCHANGED <<bufVars, sampleVars, histVars, op, cfgVars, t, o, a, o2, r, d,
                 ep_ret, ep_len, upd_i, epoch, avg_episode_ret, prev_best,
                 paramVars, checkpoints, runHist>>

\* lines 369-387: the epoch's average training return, the epoch's row is
\* dumped, the best-checkpoint decision, prev_best
EpochEnd ==
  /\ pc = "epoch_end"
  /\ \E avg \in AvgReturns :
       /\ avg_episode_ret' = Fin(avg)
       /\ checkpoints' = IF improves(Fin(avg), prev_best)
                           THEN checkpoints \cup {<<epoch, avg>>}
                           ELSE checkpoints
       /\ prev_best' = py_max(prev_best, Fin(avg))
       /\ ret_hist' = Append(ret_hist, avg)
  /\ logger' = [logger EXCEPT !.dumps = @ + 1]
  /\ advance
  /\ UNCHANGED <<numVars, actVars>>
  /\ UNCHANGED <<bufVars, sampleVars, histVars, op, cfgVars, env, test_env, o, a,
                 o2, r, d, ep_ret, ep_len, upd_i, epoch, testVars, paramVars,
                 d_env, burst, burst_t, prev_burst_t, n_env_steps, n_test_runs>>

Init ==
  /\ \E sz \in ReplaySizes : ReplayBuffer_init(sz)
  /\ idxs = <<>>
  /\ batch = NoBatch
  /\ raised = "none"
  /\ op = "init"
  /\ pc = "loop"
  /\ \E spe \in StepsPerEpochs, eps \in 1..MaxEpochs, ss \in StartSteps,
        ua \in UpdateAfters, ue \in UpdateEverys, nte \in NumTestEpisodes,
        mel \in MaxEpLens, bs \in BatchSizes, sf \in SaveFreqs :
       TrainStart(spe, eps, ss, ua, ue, nte, mel, bs, sf)
  /\ NumStart(Whole(1), 0, 0, TRUE)
  /\ ActStart(1)

Next ==
  \/ StepEnv
  \/ EndOfTrajectory
  \/ UpdateHandling
  \/ UpdateStep
  \/ EndOfEpoch
  \/ TestFor
  \/ TestWhile
  \/ EpochEnd

Spec == Init /\ [][Next]_vars

(* ----------------------- claims on the main loop ----------------------- *)
\* the done value of the transition written last
LastDone == done_buf[(ptr + max_size - 1) % max_size]

TestPcs == {"test_for", "test_while"}

\* C4: truncation correction. For the transition just stored: if the episode
\* reached max_ep_len and the environment did not signal termination, done is
\* stored as False; if the environment signalled termination before
\* max_ep_len, done is stored as True; without a termination signal done is
\* stored as False.
C4_TruncationCorrection ==
  pc = "traj" =>
    /\ (ep_len = max_ep_len /\ ~d_env) => (LastDone = 0 /\ d = FALSE)
    /\ (d_env /\ ep_len < max_ep_len) => (LastDone = 1 /\ d = TRUE)
    /\ ~d_env => LastDone = 0
    /\ recent[Len(recent)].done = LastDone

\* the final transition of an episode cut at max_ep_len is stored, after an
\* earlier episode that the environment terminated at its first step
C4_Witness ==
  /\ pc = "traj"
  /\ max_ep_len = 2
  /\ ep_len = max_ep_len
  /\ ~d_env
  /\ LastDone = 0
  /\ logger.episodes >= 1
  /\ logger.episode_length = 1

\* the loop steps up to step n at which an update burst is due
DueSteps(n) == {s \in 0..n : s >= update_after /\ s % update_every = 0}

\* C5: update schedule. A burst runs at loop step t iff t >= update_after and
\* t mod update_every = 0; it makes exactly update_every update calls; no
\* update runs at another step; consecutive bursts are update_every steps
\* apart; the batch of each update call was drawn from the buffer as it is
\* during the burst.
C5_UpdateSchedule ==
  /\ pc = "burst" =>
       /\ t >= update_after /\ t % update_every = 0
       /\ burst = upd_i /\ burst < update_every
       /\ burst_t = t
       /\ prev_burst_t >= 0 => burst_t - prev_burst_t = update_every
  /\ pc \in {"epoch", "test_for", "test_while", "epoch_end"} =>
       /\ burst = IF t >= update_after /\ t % update_every = 0
                    THEN update_every ELSE 0
       /\ q_step = update_every * Cardinality(DueSteps(t))
       /\ logger.losses = q_step
  /\ (pc \in {"burst", "epoch"} /\ burst >= 1) =>
       /\ Len(idxs) = batch_size
       /\ \A k \in DOMAIN idxs : idxs[k] < size /\ BatchRow(k) = Row(idxs[k])
  /\ pc \in {"traj", "update"} => burst = 0

\* the second burst of a run has made its two update calls
C5_Witness ==
  /\ pc = "epoch"
  /\ update_every = 2
  /\ update_after = 3
  /\ burst = 2
  /\ t = 4

\* C6 as claimed: exactly the first start_steps steps (t < start_steps) take a
\* random action and every later step takes the policy's.
C6_ExplorationSchedule ==
  pc = "traj" => (a = RandomAction <=> t < start_steps)

\* the greatest of a non-empty set of numbers
Greatest(S) == CHOOSE x \in S : \A y \in S : y <= x

\* C7: best checkpoint. save_model ran at the end of epoch e iff the epoch's
\* average return exceeds that of every earlier epoch; prev_best is the
\* greatest average return so far.
C7_BestCheckpoint ==
  /\ \A e \in 1..Len(ret_hist) :
       (<<e, ret_hist[e]>> \in checkpoints)
         <=> (\A k \in 1..(e - 1) : ret_hist[e] > ret_hist[k])
  /\ \A c \in checkpoints : c[1] \in 1..Len(ret_hist) /\ c[2] = ret_hist[c[1]]
  /\ prev_best = IF ret_hist = <<>> THEN NegInf
                 ELSE Fin(Greatest({ret_hist[e] : e \in 1..Len(ret_hist)}))

\* three epochs whose second ties the first: saves at epochs 1 and 3 only
C7_Witness ==
  /\ ret_hist = <<5, 5, 7>>
  /\ checkpoints = {<<1, 5>>, <<3, 7>>}

\* C8: termination. The loop takes steps_per_epoch * epochs environment steps
\* and as many stores and then ends; test_agent runs once per epoch, right
\* after step k * steps_per_epoch, and plays num_test_episodes rollouts of at
\* most max_ep_len steps.
C8_Counts ==
  /\ pc # "error"
  /\ n_env_steps <= steps_per_epoch * epochs
  /\ nstored = n_env_steps
  /\ pc = "done" =>
       /\ n_env_steps = steps_per_epoch * epochs
       /\ n_test_runs = epochs
       /\ logger.evals = num_test_episodes * epochs
  /\ pc = "epoch_end" => ta_j = 0
  /\ pc \in TestPcs \cup {"epoch_end"} =>
       /\ n_env_steps % steps_per_epoch = 0
       /\ n_test_runs = n_env_steps \div steps_per_epoch
       /\ epoch = n_test_runs
  /\ pc \in TestPcs =>
       /\ ta_j <= num_test_episodes
       /\ ta_ep_len <= max_ep_len
       /\ logger.evals = num_test_episodes * (n_test_runs - 1) + ta_j
  /\ pc \notin TestPcs =>
       /\ n_test_runs = (IF pc \in {"loop", "epoch_end", "done"} THEN n_env_steps
                         ELSE n_env_steps - 1) \div steps_per_epoch
       /\ logger.evals = num_test_episodes * n_test_runs

\* the greatest number of steps test_agent can take, plus one
EvalCost == num_test_episodes * (max_ep_len + 3) + 2
\* the greatest number of steps one loop iteration can take, plus one
IterCost == EvalCost + update_every + 4
\* a bound on the steps left in the run, by position
StepsLeft ==
  IF pc = "done" THEN 0
  ELSE (steps_per_epoch * epochs - t) * IterCost +
       CASE pc = "loop" -> EvalCost + update_every + 3
         [] pc = "traj" -> EvalCost + update_every + 2
         [] pc = "update" -> EvalCost + update_every + 1
         [] pc = "burst" -> EvalCost + (update_every - upd_i)
         [] pc = "epoch" -> EvalCost
         [] pc = "test_for" -> (num_test_episodes - ta_j) * (max_ep_len + 3) + 1
         [] pc = "test_while" -> (num_test_episodes - ta_j) * (max_ep_len + 3)
                                   - ta_ep_len
         [] OTHER -> 0

\* C8, whole: the counts above hold throughout; until the run has ended a next
\* step exists; and every step lowers StepsLeft, a natural number, so the run
\* ends, and it ends only at "done".
C8_Termination ==
  /\ [](C8_Counts /\ StepsLeft >= 0 /\ (pc # "done" => ENABLED Next))
  /\ [][StepsLeft' < StepsLeft]_vars

\* a run of three epochs of two steps has ended
C8_Witness ==
  /\ pc = "done"
  /\ epochs = 3
  /\ steps_per_epoch = 2
  /\ n_env_steps = 6
  /\ n_test_runs = 3

\* what the evaluator must leave alone
TrainingState ==
  <<bufVars, histVars, env, o, ep_ret, ep_len, paramVars, prev_best>>

\* C9: evaluator frame. No step of test_agent changes the replay buffer, the
\* training environment, o, ep_ret, ep_len, the live or target parameters or
\* prev_best.
C9_EvaluatorFrame ==
  [][(pc \in TestPcs) => (UNCHANGED TrainingState)]_vars

\* test_agent returned after rollouts that took steps, in the middle of a
\* training episode
C9_Witness ==
  /\ pc = "epoch_end"
  /\ logger.evals >= 2
  /\ test_env >= 1
  /\ ep_len >= 1
  /\ env # test_env

\* C15: per-step ordering. When the update handling of step t starts and
\* throughout its burst, the buffer already holds the transition of step t
\* (t + 1 stores made, the latest one being this step's a, r, o2 and stored
\* done flag) and no step of the burst modifies the buffer; when the
\* evaluator runs and when the best-checkpoint decision is taken, the burst
\* of step t, if one was due, has made all its update calls, and the
\* evaluator has finished before the decision.
C15_StepOrdering ==
  /\ [](pc \in {"update", "burst"} =>
          /\ nstored = t + 1
          /\ LastDone = as_float(d)
          /\ LET last == recent[Len(recent)] IN
               /\ last.act = a /\ last.rew = r /\ last.obs2 = o2
               /\ last.done = as_float(d)
               /\ Row((ptr + max_size - 1) % max_size) = last)
  /\ [][(pc \in {"update", "burst"}) => (UNCHANGED <<bufVars, histVars>>)]_vars
  /\ [](pc \in TestPcs \cup {"epoch_end"} =>
          /\ burst = IF t \in DueSteps(t) THEN update_every ELSE 0
          /\ q_step = update_every * Cardinality(DueSteps(t))
          /\ targ_sync = q_step
          /\ Len(ret_hist) = epoch - 1)
  /\ [](pc = "epoch_end" => logger.evals = num_test_episodes * epoch)

\* the evaluator starts at the end of the third one-step epoch, after that
\* step's burst of two updates
C15_Witness ==
  /\ pc = "test_for"
  /\ ta_j = 0
  /\ steps_per_epoch = 1
  /\ update_every = 2
  /\ t = 2
  /\ burst = 2
  /\ nstored = 3

\* C16: implicit gating. The loop never calls sample_batch on an empty buffer:
\* whenever a burst runs at step t the buffer's size is min(t + 1,
\* replay_size) >= 1, so no sample_batch call of the loop raises, for
\* update_after = 0 as well.
C16_NeverSamplesEmpty ==
  /\ pc # "error"
  /\ raised = "none"
  /\ pc \in {"update", "burst"} => (size = min(t + 1, max_size) /\ size >= 1)
  /\ (pc \in {"burst", "epoch"} /\ burst >= 1) =>
       (Len(idxs) = batch_size /\ \A k \in DOMAIN idxs : idxs[k] < min(t + 1, max_size))

\* with update_after = 0 the first burst runs at step 0 and samples from a
\* buffer that holds one transition
C16_Witness ==
  /\ pc = "burst"
  /\ update_after = 0
  /\ t = 0
  /\ burst = 1
  /\ size = 1
  /\ max_size = 2
  /\ idxs = <<0>>

\* the sum of the rewards of the first n steps of an episode
RECURSIVE ReturnOf(_)
ReturnOf(n) == IF n = 0 THEN 0 ELSE ReturnOf(n - 1) + env_reward(n - 1)

\* the episode has ended at the step just taken: its stored done flag is
\* true, or its length reached max_ep_len
EpisodeOver == LastDone = 1 \/ ep_len = max_ep_len

\* C17: episode accumulator. At the start of every training step
\* 0 <= ep_len < max_ep_len, and ep_len and ep_ret are the length and the
\* return of the running episode of the training environment; in step t the
\* accumulator and the environment are reset iff the stored done flag is true
\* or ep_len reached max_ep_len, and exactly then the episode's return and
\* length are logged, once; nothing else logs an episode or resets.
C17_EpisodeAccumulator ==
  /\ [](/\ pc # "traj" => (0 <= ep_len /\ ep_len < max_ep_len)
        /\ pc = "traj" => (1 <= ep_len /\ ep_len <= max_ep_len)
        /\ ep_len = env
        /\ ep_ret = ReturnOf(ep_len))
  /\ [][(pc = "traj") =>
         IF EpisodeOver
           THEN /\ logger'.episodes = logger.episodes + 1
                /\ logger'.episode_return = ep_ret
                /\ logger'.episode_length = ep_len
                /\ ep_ret' = 0 /\ ep_len' = 0
                /\ env' = env_reset /\ o' = env_reset
           ELSE /\ UNCHANGED <<logger, ep_ret, ep_len, env>>
                /\ o' = o2]_vars
  /\ [][(pc # "traj") =>
         /\ logger'.episodes = logger.episodes
         /\ logger'.episode_return = logger.episode_return
         /\ logger'.episode_length = logger.episode_length
         /\ (pc # "loop") => UNCHANGED <<ep_ret, ep_len, env>>]_vars

\* a second episode has just been logged and the accumulator reset: the
\* environment ended it after one step, the first one ran to max_ep_len
C17_Witness ==
  /\ pc = "update"
  /\ max_ep_len = 2
  /\ t = 2
  /\ logger.episodes = 2
  /\ logger.episode_length = 1
  /\ logger.episode_return = 1
  /\ LastDone = 1
  /\ ep_len = 0
  /\ ep_ret = 0

\* C18 as claimed: a transition for which the environment itself signalled
\* termination is stored with done = True, also when that happens on the
\* step at which ep_len equals max_ep_len; done is forced to False only when
\* the step limit alone ended the episode.
C18_TerminationKept ==
  pc = "traj" =>
    /\ d_env => (LastDone = 1 /\ d = TRUE)
    /\ (ep_len = max_ep_len /\ ~d_env) => (LastDone = 0 /\ d = FALSE)

\* C19: gradient work. With update_after >= 1, at every point of the run the
\* number of update calls made so far is at most the number of environment
\* steps taken so far, which is t + 1 once step t has been taken.
C19_GradientWork ==
  /\ pc \notin {"loop", "done"} => n_env_steps = t + 1
  /\ pc = "loop" => n_env_steps = t
  /\ update_after >= 1 =>
       /\ q_step <= n_env_steps
       /\ pi_step <= n_env_steps
       /\ logger.losses <= n_env_steps

\* with update_after = 3 and update_every = 1, step 5 has made the third
\* update of the run
C19_Witness ==
  /\ pc = "epoch"
  /\ update_after = 3
  /\ update_every = 1
  /\ t = 5
  /\ q_step = 3
  /\ burst = 1

(* ------------------ update(data) on numeric parameters ------------------ *)
\* bounds of SpecUpdate: update calls explored; polyak ranges over the
\* fractions k / PolyakDen, 0 <= k <= PolyakDen
MaxUpdates == 2
PolyakDen == 4

\* the initial value of a parameter, the gradient a backward pass yields
InitWeights == {0, 1}
Grads == {-1, 0, 1}
ParamNames == {"pi", "q"}

RECURSIVE gcd(_, _)
gcd(x, y) == IF y = 0 THEN x ELSE gcd(y, x % y)
abs(x) == IF x < 0 THEN -x ELSE x

\* a fraction in lowest terms
reduce(f) ==
  LET g == gcd(abs(f[1]), f[2]) IN <<f[1] \div g, f[2] \div g>>
frac_mul(f, g) == reduce(<<f[1] * g[1], f[2] * g[2]>>)
frac_add(f, g) == reduce(<<f[1] * g[2] + g[1] * f[2], f[2] * g[2]>>)
frac_sub(f, g) == reduce(<<f[1] * g[2] - g[1] * f[2], f[2] * g[2]>>)

polyak_average_swapped(p_targ, p) ==
  frac_add(frac_mul(p_targ, frac_sub(Whole(1), polyak)),
           frac_mul(polyak, Whole(p)))

\* lines 275-276: p_targ.data.mul_(polyak); p_targ.data.add_((1 - polyak) * p.data)
polyak_average(p_targ, p) ==
  frac_add(frac_mul(p_targ, polyak),
           frac_mul(frac_sub(Whole(1), polyak), Whole(p)))

\* optimizer.zero_grad() on one parameter's .grad
zero_grad(g) == IF g = <<>> \/ set_to_none THEN <<>> ELSE <<0>>

\* loss.backward() on one parameter of the loss's graph: a gradient dg is
\* accumulated into .grad if the parameter requires grad
backward(g, rg, dg) ==
  IF ~rg THEN g ELSE IF g = <<>> THEN <<dg>> ELSE <<g[1] + dg>>

\* optimizer.step() on one parameter: skipped when .grad is None, else a
\* descent step of one unit of learning rate along .grad
optimizer_step(w, g) == IF g = <<>> THEN w ELSE w - g[1]

\* what an update call leaves alone
outsideUpdate ==
  <<bufVars, sampleVars, histVars, op, cfgVars, env, test_env, loopVars,
    testVars, checkpoints, runHist, actVars>>

\* update is called (line 356) and line 247 runs: q_optimizer.zero_grad()
Update_q_zero_grad ==
  /\ u_pc = "idle"
  /\ n_updates < MaxUpdates
  /\ targ_entry' = ac_targ
  /\ grad' = [grad EXCEPT !.q = zero_grad(@)]
  /\ u_pc' = "q_backward"
  /\ UNCHANGED <<outsideUpdate, paramVars, logger, polyak, ac, ac_targ,
                 requires_grad, targ_requires_grad, set_to_none, targ_init,
                 n_updates>>

\* lines 248-249: the critic loss and its backward pass; the graph of loss_q
\* holds the live critic's parameters only (the target is under no_grad)
Update_q_backward ==
  /\ u_pc = "q_backward"
  /\ \E dg \in Grads : grad' = [grad EXCEPT !.q = backward(@, requires_grad.q, dg)]
  /\ u_pc' = "q_step"
  /\ UNCHANGED <<outsideUpdate, paramVars, logger, polyak, ac, ac_targ,
                 requires_grad, targ_requires_grad, set_to_none, targ_entry,
                 targ_init, n_updates>>

Update_q_step_syncs_target ==
  /\ u_pc = "q_step"
  /\ ac' = [ac EXCEPT !.q = optimizer_step(@, grad.q)]
  /\ ac_targ' = [ac_targ EXCEPT !.q = polyak_average(@, ac'.q)]
  /\ q_step' = q_step + 1
  /\ u_pc' = "freeze"
  /\ UNCHANGED <<outsideUpdate, pi_step, targ_sync, logger, polyak,
                 grad, requires_grad, targ_requires_grad, set_to_none,
                 targ_entry, targ_init, n_updates>>

\* line 250: q_optimizer.step()
Update_q_step ==
  /\ u_pc = "q_step"
  /\ ac' = [ac EXCEPT !.q = optimizer_step(@, grad.q)]
  /\ q_step' = q_step + 1
  /\ u_pc' = "freeze"
  /\ UNCHANGED <<outsideUpdate, pi_step, targ_sync, logger, polyak, ac_targ,
                 grad, requires_grad, targ_requires_grad, set_to_none,
                 targ_entry, targ_init, n_updates>>

Update_freeze_skipped ==
  /\ u_pc = "freeze"
  /\ u_pc' = "pi_zero_grad"
  /\ UNCHANGED <<outsideUpdate, paramVars, logger, polyak, ac, ac_targ, grad,
                 requires_grad, targ_requires_grad, set_to_none, targ_entry,
                 targ_init, n_updates>>

\* lines 254-255: the critic's parameters are frozen
Update_freeze ==
  /\ u_pc = "freeze"
  /\ requires_grad' = [requires_grad EXCEPT !.q = FALSE]
  /\ u_pc' = "pi_zero_grad"
  /\ UNCHANGED <<outsideUpdate, paramVars, logger, polyak, ac, ac_targ, grad,
                 targ_requires_grad, set_to_none, targ_entry, targ_init,
                 n_updates>>

\* line 258: pi_optimizer.zero_grad()
Update_pi_zero_grad ==
  /\ u_pc = "pi_zero_grad"
  /\ grad' = [grad EXCEPT !.pi = zero_grad(@)]
  /\ u_pc' = "pi_backward"
  /\ UNCHANGED <<outsideUpdate, paramVars, logger, polyak, ac, ac_targ,
                 requires_grad, targ_requires_grad, set_to_none, targ_entry,
                 targ_init, n_updates>>

\* lines 259-260: the actor loss and its backward pass; the graph of loss_pi
\* holds the actor's and the critic's parameters
Update_pi_backward ==
  /\ u_pc = "pi_backward"
  /\ \E dpi \in Grads, dq \in Grads :
       grad' = [pi |-> backward(grad.pi, requires_grad.pi, dpi),
                q |-> backward(grad.q, requires_grad.q, dq)]
  /\ u_pc' = "pi_step"
  /\ UNCHANGED <<outsideUpdate, paramVars, logger, polyak, ac, ac_targ,
                 requires_grad, targ_requires_grad, set_to_none, targ_entry,
                 targ_init, n_updates>>

\* line 261: pi_optimizer.step()
Update_pi_step ==
  /\ u_pc = "pi_step"
  /\ ac' = [ac EXCEPT !.pi = optimizer_step(@, grad.pi)]
  /\ pi_step' = pi_step + 1
  /\ u_pc' = "unfreeze"
  /\ UNCHANGED <<outsideUpdate, q_step, targ_sync, logger, polyak, ac_targ,
                 grad, requires_grad, targ_requires_grad, set_to_none,
                 targ_entry, targ_init, n_updates>>

Update_unfreeze_skipped ==
  /\ u_pc = "unfreeze"
  /\ u_pc' = "polyak"
  /\ UNCHANGED <<outsideUpdate, paramVars, logger, polyak, ac, ac_targ, grad,
                 requires_grad, targ_requires_grad, set_to_none, targ_entry,
                 targ_init, n_updates>>

\* lines 264-265: the critic's parameters are unfrozen
Update_unfreeze ==
  /\ u_pc = "unfreeze"
  /\ requires_grad' = [requires_grad EXCEPT !.q = TRUE]
  /\ u_pc' = "polyak"
  /\ UNCHANGED <<outsideUpdate, paramVars, logger, polyak, ac, ac_targ, grad,
                 targ_requires_grad, set_to_none, targ_entry, targ_init,
                 n_updates>>

\* lines 268-276: the losses are logged, every target parameter is averaged
\* with its live parameter, and update returns
Update_polyak ==
  /\ u_pc = "polyak"
  /\ logger' = [logger EXCEPT !.losses = @ + 1]
  /\ ac_targ' = [k \in ParamNames |-> polyak_average(ac_targ[k], ac[k])]
  /\ targ_sync' = targ_sync + 1
  /\ n_updates' = n_updates + 1
  /\ u_pc' = "idle"
  /\ UNCHANGED <<outsideUpdate, q_step, pi_step, polyak, ac, grad,
                 requires_grad, targ_requires_grad, set_to_none, targ_entry,
                 targ_init>>

InitUpdate ==
  /\ ReplayBuffer_init(1)
  /\ idxs = <<>>
  /\ batch = NoBatch
  /\ raised = "none"
  /\ op = "init"
  /\ pc = "no_run"
  /\ TrainStart(1, 1, 0, 0, 1, 1, 1, 1, 1)
  /\ \E k \in 0..PolyakDen, w_pi \in InitWeights, w_q \in InitWeights,
        stn \in BOOLEAN :
       NumStart(reduce(Frac(k, PolyakDen)), w_pi, w_q, stn)
  /\ ActStart(1)

NextUpdate ==
  \/ Update_q_zero_grad
  \/ Update_q_backward
  \/ Update_q_step
  \/ Update_freeze
  \/ Update_pi_zero_grad
  \/ Update_pi_backward
  \/ Update_pi_step
  \/ Update_unfreeze
  \/ Update_polyak

SpecUpdate == InitUpdate /\ [][NextUpdate]_vars

(* ----------------------- claims on the update step ---------------------- *)
\* C10: target smoothing. When an update call returns, every target parameter
\* is polyak * (its value at entry) + (1 - polyak) * (the live parameter as
\* both optimizer steps left it); with polyak = 1 the target parameters keep
\* their initial values through any number of calls; with polyak = 0 they
\* equal the live parameters after a call.
C10_TargetSmoothing ==
  /\ (u_pc = "idle" /\ n_updates >= 1) =>
       \A k \in ParamNames :
         /\ ac_targ[k][1] * (polyak[2] * targ_entry[k][2]) =
              (polyak[1] * targ_entry[k][1]
                 + (polyak[2] - polyak[1]) * ac[k] * targ_entry[k][2])
              * ac_targ[k][2]
         /\ polyak[1] = 0 => ac_targ[k] = <<ac[k], 1>>
  /\ polyak[1] = polyak[2] => ac_targ = targ_init

\* a second update call has returned with polyak = 1/4, both live parameters
\* moved, and the targets strictly between their old values and the live ones
C10_Witness ==
  /\ u_pc = "idle"
  /\ n_updates = 2
  /\ polyak = <<1, 4>>
  /\ \A k \in ParamNames : ac_targ[k] # targ_entry[k] /\ ac_targ[k] # <<ac[k], 1>>
  /\ ac_targ.q[2] > 1

\* the positions of update at which the critic is frozen: from the freeze
\* (line 255) to the unfreeze (line 265)
FrozenPcs == {"pi_zero_grad", "pi_backward", "pi_step", "unfreeze"}

\* C11: critic freeze protocol. In every update call the critic's parameters
\* are frozen exactly from after the critic optimizer step until the unfreeze
\* that precedes the return: the actor's zero_grad, backward pass and
\* optimizer step all run with the critic frozen, they add no gradient to a
\* critic parameter and change no critic parameter, and the critic is
\* trainable at the entry of every call and during its own backward pass.
C11_FreezeProtocol ==
  /\ [](/\ requires_grad.q = (u_pc \notin FrozenPcs)
        /\ u_pc \in FrozenPcs => (q_step = n_updates + 1 /\ pi_step <= q_step)
        /\ u_pc \in {"pi_zero_grad", "pi_backward"} => pi_step = n_updates
        /\ u_pc = "idle" => (requires_grad.q /\ requires_grad.pi))
  /\ [][(u_pc \in {"pi_zero_grad", "pi_backward", "pi_step"}) =>
         (grad'.q = grad.q /\ ac'.q = ac.q)]_vars

\* in a second update call, the actor step has run with the critic frozen
\* and moved the actor
C11_Witness ==
  /\ u_pc = "unfreeze"
  /\ n_updates = 1
  /\ ~requires_grad.q
  /\ grad.pi = <<1>>
  /\ grad.q = <<-1>>
  /\ pi_step = 2

\* the positions of update after the actor step (line 261), and the return
AfterActorStep ==
  u_pc \in {"unfreeze", "polyak"} \/ (u_pc = "idle" /\ n_updates >= 1)

\* C12 as claimed: after the actor step of an update call and before the next
\* critic step, every critic parameter's gradient is zero or unset.
C12_CriticGradCleared ==
  AfterActorStep => grad.q \in {<<>>, <<0>>}

\* C12, amended: after the actor step of an update call every critic
\* parameter still holds a gradient (it is not None), the one the critic
\* backward pass of the same call left: no step of update after the critic
\* backward pass changes it, and it is cleared only by q_optimizer.zero_grad()
\* at the start of the next call.
C12_CriticGradKept ==
  /\ [](AfterActorStep => grad.q # <<>>)
  /\ [][(u_pc \notin {"idle", "q_backward"}) => grad'.q = grad.q]_vars
  /\ [][(u_pc = "idle") => grad'.q \in {<<>>, <<0>>}]_vars

\* the critic-loss gradient of the call, not zero, is still held by the
\* critic parameter when the call is about to return
C12_Witness ==
  /\ u_pc = "polyak"
  /\ n_updates = 1
  /\ grad.q = <<1>>
  /\ requires_grad.q

\* C14: target discipline. The number of Polyak applications equals the number
\* of completed update calls at every point; inside a call the target
\* parameters keep their values of the call's entry until the Polyak step,
\* which runs once, after the critic's and the actor's optimizer step of that
\* call; no other step changes a target parameter; and the target parameters
\* are never marked trainable.
C14_TargetDiscipline ==
  /\ [](/\ targ_sync = n_updates
        /\ ~targ_requires_grad
        /\ u_pc # "idle" => ac_targ = targ_entry
        /\ u_pc = "polyak" => (q_step = n_updates + 1 /\ pi_step = n_updates + 1))
  /\ [][(ac_targ' # ac_targ \/ targ_sync' # targ_sync) =>
         (/\ u_pc = "polyak"
          /\ u_pc' = "idle"
          /\ targ_sync' = targ_sync + 1
          /\ ac' = ac)]_vars

\* two calls have returned; the live critic moved in both and the target
\* critic followed it only part of the way
C14_Witness ==
  /\ u_pc = "idle"
  /\ targ_sync = 2
  /\ q_step = 2
  /\ pi_step = 2
  /\ polyak = <<1, 2>>
  /\ ac.q = 2
  /\ targ_init.q = <<0, 1>>
  /\ ac_targ.q = <<5, 4>>

(* ------------------------ get_action on numbers ------------------------ *)
\* bound of SpecAct: the draws of np.random.randn explored reach -MaxNoise
\* and MaxNoise
MaxNoise == 100

\* act_limit, in units of one action step; the policy's outputs ac.act(o);
\* the values of noise_scale (0 at test time, act_noise in training), in
\* action steps per unit of noise; the draws of np.random.randn
ActLimits == {0, 1, 2}
PiOutputs == -2..3
NoiseScales == {0, 1, 3}
Randn == {-MaxNoise, -1, 0, 1, MaxNoise}

\* np.maximum, np.minimum and np.clip(x, lo, hi) = minimum(maximum(x, lo), hi)
maximum(x, y) == IF x >= y THEN x ELSE y
minimum(x, y) == IF x <= y THEN x ELSE y
np_clip(x, lo, hi) == minimum(maximum(x, lo), hi)

get_action_symmetric(act, noise_scale, noise) ==
  np_clip(act + noise_scale * noise, -act_limit, act_limit)

\* lines 279-282: the action get_action returns for the policy output act,
\* the argument noise_scale and the draw noise
get_action_value(act, noise_scale, noise) ==
  np_clip(act + noise_scale * noise, 0, act_limit)

\* a call of get_action (lines 278-282)
GetActionCall ==
  /\ \E act \in PiOutputs, ns \in NoiseScales, z \in Randn :
       /\ ga_act' = act
       /\ ga_noise_scale' = ns
       /\ ga_randn' = z
       /\ ga_a' = get_action_value(act, ns, z)
  /\ op' = "get_action"
  /\ UNCHANGED <<bufVars, sampleVars, histVars, trainVars, numVars, act_limit>>

InitAct ==
  /\ ReplayBuffer_init(1)
  /\ idxs = <<>>
  /\ batch = NoBatch
  /\ raised = "none"
  /\ op = "init"
  /\ pc = "no_run"
  /\ TrainStart(1, 1, 0, 0, 1, 1, 1, 1, 1)
  /\ NumStart(Whole(1), 0, 0, TRUE)
  /\ \E lim \in ActLimits : ActStart(lim)

NextAct == GetActionCall

SpecAct == InitAct /\ [][NextAct]_vars

\* C13: action clipping. Every action get_action returns lies in
\* [0, act_limit], whatever the policy's output, the noise drawn and the
\* noise scale; it is the nearest point of that interval to the noisy output.
C13_ActionClipping ==
  op = "get_action" =>
    /\ 0 <= ga_a /\ ga_a <= act_limit
    /\ LET x == ga_act + ga_noise_scale * ga_randn IN
         /\ (0 <= x /\ x <= act_limit) => ga_a = x
         /\ x < 0 => ga_a = 0
         /\ x > act_limit => ga_a = act_limit

\* the largest negative noise draw, scaled, on a policy output inside the
\* interval, is clipped to 0
C13_Witness ==
  /\ op = "get_action"
  /\ act_limit = 2
  /\ ga_act = 2
  /\ ga_noise_scale = 3
  /\ ga_randn = -MaxNoise
  /\ ga_a = 0

====
